---- MODULE Spec2Model ----
(***************************************************************************)
(* Model of email-verifier.js: the bulk verification run (processEmails),  *)
(* its resume logic over task-info.json, the poll loop, the classifier and *)
(* the two output stores valid.json / invalid.json, together with the      *)
(* remote verification service and process crashes as the environment.     *)
(***************************************************************************)
EXTENDS Integers, Sequences, FiniteSets, TLC

\* ------------------------------------------------------------------ bounds
\* Emails per bulk task (the script's BATCH_SIZE, scaled down).
BatchSize == 1
\* Number of leads in input/data.json.
MaxLeads == 3
\* Number of invocations of the script (finished or crashed) in one behaviour.
MaxRuns == 2
\* Poll iterations that fit in the 30 s resume probe (30000 / POLLING_INTERVAL_MS, scaled).
ProbePolls == 1
\* Poll iterations that fit in MAX_POLLING_TIME_MS (scaled).
MainPolls == 2
\* Longest email list handed to cleanEmailList when it is checked on its own.
MaxList == 4

\* ------------------------------------------------------------------ strings
\* A string is a sequence of one-character strings.
EmailA == <<"a", "@", "b", ".", "c">>
EmailAUpper == <<"A", "@", "b", ".", "c">>
EmailD == <<"d", "@", "b", ".", "c">>
EmailBad == <<"d", "@", "b">>
EmailASpace == <<" ", "a", "@", "b", ".", "c">>
EmailTwoAt == <<"a", "@", "@", "b", ".", "c">>

\* String.prototype.toLowerCase on one character (letters of the model's alphabet).
LowerChar(c) ==
  CASE c = "A" -> "a"
    [] c = "B" -> "b"
    [] c = "C" -> "c"
    [] c = "D" -> "d"
    [] OTHER -> c

toLowerCase(s) == [i \in 1..Len(s) |-> LowerChar(s[i])]

IsSpace(c) == c \in {" ", "\t", "\n"}

RECURSIVE trimStart(_)
trimStart(s) == IF s # <<>> /\ IsSpace(Head(s)) THEN trimStart(Tail(s)) ELSE s

RECURSIVE trimEnd(_)
trimEnd(s) ==
  IF s # <<>> /\ IsSpace(s[Len(s)]) THEN trimEnd(SubSeq(s, 1, Len(s) - 1)) ELSE s

trim(s) == trimEnd(trimStart(s))

\* /^[^\s@]+@[^\s@]+\.[^\s@]+$/ : one "@", no white space, a non-empty local
\* part, and after the "@" a "." with at least one character on each side
\* (s is the string under test).
isValidEmailFormat(email) ==
  \E s \in {email} : \E p \in 1..Len(s) :
    /\ s[p] = "@"
    /\ p > 1
    /\ \A i \in 1..Len(s) : (i # p) => (s[i] # "@" /\ ~IsSpace(s[i]))
    /\ \E q \in (p + 2)..(Len(s) - 1) : s[q] = "."

\* cleanEmailList: syntax check and first-occurrence dedup on the trimmed,
\* lowercased key; the original strings are kept.
RECURSIVE cleanLoop(_, _, _, _)
cleanLoop(emailList, validEmails, invalidEmails, seen) ==
  IF emailList = <<>>
  THEN [validEmails |-> validEmails, invalidEmails |-> invalidEmails]
  ELSE LET email == Head(emailList)
           lowerEmail == trim(toLowerCase(email))
       IN IF ~isValidEmailFormat(lowerEmail)
          THEN cleanLoop(Tail(emailList), validEmails, Append(invalidEmails, email), seen)
          ELSE IF lowerEmail \in seen
               THEN cleanLoop(Tail(emailList), validEmails, invalidEmails, seen)
               ELSE cleanLoop(Tail(emailList), Append(validEmails, email), invalidEmails,
                              seen \cup {lowerEmail})

\* cleanEmailList without the duplicate check.
cleanEmailListNoDedup(emailList) ==
  LET ok(e) == isValidEmailFormat(trim(toLowerCase(e)))
      v == SelectSeq(emailList, ok)
      bad == SelectSeq(emailList, LAMBDA e : ~ok(e))
  IN [validEmails |-> v, invalidCount |-> Len(bad), duplicateCount |-> 0,
      invalidEmails |-> bad]

cleanEmailList(emailList) ==
  LET r == cleanLoop(emailList, <<>>, <<>>, {})
  IN [validEmails |-> r.validEmails,
      invalidCount |-> Len(r.invalidEmails),
      duplicateCount |-> Len(emailList) - Len(r.validEmails) - Len(r.invalidEmails),
      invalidEmails |-> r.invalidEmails]

\* ------------------------------------------------------------------ verdicts
\* A verdict field is "true", "false" or "absent" (undefined in the response).
Tri == {"true", "false", "absent"}
VerdictFields == {"is_deliverable", "is_valid_syntax", "is_disposable",
                  "is_spamtrap", "is_disabled", "is_safe_to_send"}
Verdicts == [VerdictFields -> Tri]

\* isEmailValid with is_deliverable === true in place of !== false (an absent
\* field fails).
isEmailValidStrict(result) ==
  /\ result["is_deliverable"] = "true"
  /\ result["is_valid_syntax"] # "false"
  /\ result["is_disposable"] # "true"
  /\ result["is_spamtrap"] # "true"
  /\ result["is_disabled"] # "true"
  /\ result["is_safe_to_send"] # "false"

isEmailValid(result) ==
  LET isDeliverable == result["is_deliverable"] # "false"
      hasValidSyntax == result["is_valid_syntax"] # "false"
      isNotDisposable == result["is_disposable"] # "true"
      isNotSpamtrap == result["is_spamtrap"] # "true"
      isNotDisabled == result["is_disabled"] # "true"
      isSafeToSend == result["is_safe_to_send"] # "false"
  IN isDeliverable /\ hasValidSyntax /\ isNotDisposable /\ isNotSpamtrap
       /\ isNotDisabled /\ isSafeToSend

VerdictEmpty == [f \in VerdictFields |-> "absent"]
VerdictBadSyntax == [VerdictEmpty EXCEPT !["is_valid_syntax"] = "false"]
\* The verdicts the service hands out in the run model.
ServiceVerdicts == {VerdictEmpty, VerdictBadSyntax}

\* ------------------------------------------------------------------ input
Lead(e, n) == [email |-> e, name |-> n]
LeadPool == {Lead(EmailA, "n1"), Lead(EmailAUpper, "n2"), Lead(EmailD, "n3"),
             Lead(EmailBad, "n4")}
\* input/data.json: MaxLeads distinct records of the pool, in any order.
InputLists ==
  {l \in [1..MaxLeads -> LeadPool] : \A i, j \in 1..MaxLeads : l[i] = l[j] => i = j}

\* ------------------------------------------------------------------ state
VARIABLES
  leads,            \* input/data.json, parsed at start-up (line 36)
  validFile,        \* output/valid.json as a list of leads (absent = empty)
  invalidFile,      \* output/invalid.json
  taskInfo,         \* output/task-info.json: <<>> when absent, else <<checkpoint>>
  tasks,            \* the service's record of the task the checkpoint names
  orphans,          \* the service: tasks no checkpoint names that are still
                    \* processing (0, 1, or 2 for two or more)
  pc,               \* position of the script's control
  runs,             \* invocations started so far
  resumeFromBatch,  \* processEmails local
  leadMap,          \* processEmails local: lowercased email -> lead
  batches,          \* processEmails local
  batchIndex,       \* loop variable of the batch loop
  pollTaskId,       \* pollTaskResults argument
  elapsed,          \* pollTaskResults: poll intervals since startTime
  todo,             \* saveResults: entries of results not yet visited
  startTaskInfo,    \* history: task-info.json when the run started
  startValid,       \* history: valid.json when the run started
  startInvalid,     \* history: invalid.json when the run started
  probeOutcome,     \* history: how the resume probe of this run ended
  recovered,        \* history: previousResults.results of this run's probe
  createLog,        \* history: createBulkTask requests of this run
  polled,           \* history: the responses to the get-result requests of the
                    \* run's latest pollTaskResults call ("throw": none came)
  balanceCalled     \* history: the run issued a check-balance request

vars == <<leads, validFile, invalidFile, taskInfo, tasks, orphans, pc, runs, resumeFromBatch,
          leadMap, batches, batchIndex, pollTaskId, elapsed, todo, startTaskInfo,
          startValid, startInvalid, probeOutcome, recovered, createLog, polled,
          balanceCalled>>

locals == <<resumeFromBatch, leadMap, batches, batchIndex, pollTaskId, elapsed, todo>>
history == <<startTaskInfo, startValid, startInvalid, probeOutcome, recovered, createLog, polled,
             balanceCalled>>
files == <<validFile, invalidFile, taskInfo>>
service == <<tasks, orphans>>

EmptyMap == [k \in {} |-> k]
MapSet(m, k, v) == [x \in (DOMAIN m) \cup {k} |-> IF x = k THEN v ELSE m[x]]

\* The task id the service hands out: an opaque token, here the run and the
\* batch index of the request (one request per batch and run).
NewTaskId == <<runs, batchIndex>>
NoTaskId == <<>>

InRun == {"probe", "recover", "balance", "create", "poll", "save", "final"}

Init ==
  /\ leads \in InputLists
  /\ validFile = <<>>
  /\ invalidFile = <<>>
  /\ taskInfo = <<>>
  /\ tasks = EmptyMap
  /\ orphans = 0
  /\ pc = "idle"
  /\ runs = 0
  /\ resumeFromBatch = 0
  /\ leadMap = EmptyMap
  /\ batches = <<>>
  /\ batchIndex = 0
  /\ pollTaskId = NoTaskId
  /\ elapsed = 0
  /\ todo = <<>>
  /\ startTaskInfo = <<>>
  /\ startValid = <<>>
  /\ startInvalid = <<>>
  /\ probeOutcome = "none"
  /\ recovered = <<>>
  /\ createLog = <<>>
  /\ polled = <<>>
  /\ balanceCalled = FALSE

\* ------------------------------------------------------------------ helpers
\* appendToJsonFile that writes [entry] whatever the file holds.
appendToJsonFileOverwrite(file, entry, isFirstEntry) == <<entry>>

\* appendToJsonFile: the file's list with the entry pushed; a first entry
\* (file absent) starts a new list.
appendToJsonFile(file, entry, isFirstEntry) ==
  IF isFirstEntry THEN <<entry>> ELSE Append(file, entry)

\* getAlreadyVerifiedEmails that reads valid.json only.
getAlreadyVerifiedValidOnly ==
  {toLowerCase(validFile[i].email) : i \in 1..Len(validFile)}

\* getAlreadyVerifiedEmails: lowercased emails of both stores.
getAlreadyVerifiedEmails ==
  {toLowerCase(validFile[i].email) : i \in 1..Len(validFile)}
    \cup {toLowerCase(invalidFile[i].email) : i \in 1..Len(invalidFile)}

\* leads.filter(lead => !alreadyVerified.has(lead.email.toLowerCase()))
UnverifiedLeads ==
  LET alreadyVerified == getAlreadyVerifiedEmails
  IN SelectSeq(leads, LAMBDA lead : toLowerCase(lead.email) \notin alreadyVerified)

\* unverifiedLeads.forEach(lead => leadMap.set(lead.email.toLowerCase(), lead))
RECURSIVE BuildLeadMap(_, _)
BuildLeadMap(ls, m) ==
  IF ls = <<>> THEN m
  ELSE BuildLeadMap(Tail(ls), MapSet(m, toLowerCase(Head(ls).email), Head(ls)))

\* The resume path's lead map: for each checkpointed email the first input
\* lead with the same lowercased email, when there is one.
RECURSIVE ResumeLeadMap(_, _)
ResumeLeadMap(emails, m) ==
  IF emails = <<>> THEN m
  ELSE LET email == Head(emails)
           hits == {i \in 1..Len(leads) : toLowerCase(leads[i].email) = toLowerCase(email)}
       IN IF hits = {}
          THEN ResumeLeadMap(Tail(emails), m)
          ELSE LET first == CHOOSE i \in hits : \A j \in hits : i <= j
               IN ResumeLeadMap(Tail(emails), MapSet(m, toLowerCase(email), leads[first]))

\* The batch loop's partition with every email in one batch.
MakeBatchesOne(emails) == IF emails = <<>> THEN <<>> ELSE <<emails>>

\* for (i = 0; i < n; i += BATCH_SIZE) batches.push(slice(i, i + BATCH_SIZE))
RECURSIVE MakeBatches(_)
MakeBatches(emails) ==
  IF emails = <<>> THEN <<>>
  ELSE IF Len(emails) <= BatchSize THEN <<emails>>
  ELSE <<SubSeq(emails, 1, BatchSize)>>
         \o MakeBatches(SubSeq(emails, BatchSize + 1, Len(emails)))

\* pollTaskResults that goes round again after a request that threw.
pollTaskResultsRetry(resp, el, maxWaitTime) ==
  CASE resp = "completed" -> [ret |-> "data", elapsed |-> el]
    [] resp \in {"error", "file_not_found"} -> [ret |-> "null", elapsed |-> el]
    [] OTHER -> IF el + 1 < maxWaitTime
                THEN [ret |-> "again", elapsed |-> el + 1]
                ELSE [ret |-> "null", elapsed |-> el + 1]

\* One iteration of pollTaskResults' loop on the response `resp` ("throw" for a
\* failed request, else the reported status): return the data, return null,
\* or sleep and go round again while the budget lasts.
pollTaskResults(resp, el, maxWaitTime) ==
  CASE resp = "completed" -> [ret |-> "data", elapsed |-> el]
    [] resp \in {"error", "file_not_found", "throw"} -> [ret |-> "null", elapsed |-> el]
    [] OTHER -> IF el + 1 < maxWaitTime
                THEN [ret |-> "again", elapsed |-> el + 1]
                ELSE [ret |-> "null", elapsed |-> el + 1]

PollResponses(t) == {"throw", tasks[t].status}

\* saveTaskInfo that numbers the batches from 1.
saveTaskInfoFromOne(taskId, emailList, index, totalBatches) ==
  <<[taskId |-> taskId, batchIndex |-> index + 1, totalBatches |-> totalBatches,
     emails |-> emailList]>>

\* saveTaskInfo: task-info.json rewritten with the task's id, the batch index,
\* the number of batches and the batch's emails.
saveTaskInfo(taskId, emailList, index, totalBatches) ==
  <<[taskId |-> taskId, batchIndex |-> index, totalBatches |-> totalBatches,
     emails |-> emailList]>>

\* saveResults' loop entry that stores the address as the service spelled it.
saveResultsEntryEcho(entry) ==
  LET key == toLowerCase(entry.email)
  IN IF key \notin DOMAIN leadMap
     THEN UNCHANGED <<validFile, invalidFile>>
     ELSE LET leadItem == [leadMap[key] EXCEPT !.email = entry.email]
          IN IF isEmailValid(entry.verdict)
             THEN /\ validFile' = appendToJsonFile(validFile, leadItem, validFile = <<>>)
                  /\ UNCHANGED invalidFile
             ELSE /\ invalidFile' = appendToJsonFile(invalidFile, leadItem, invalidFile = <<>>)
                  /\ UNCHANGED validFile

\* One entry of saveResults' loop: look the lead up, classify, append.
saveResultsEntry(entry) ==
  LET key == toLowerCase(entry.email)
  IN IF key \notin DOMAIN leadMap
     THEN UNCHANGED <<validFile, invalidFile>>
     ELSE LET leadItem == leadMap[key]
          IN IF isEmailValid(entry.verdict)
             THEN /\ validFile' = appendToJsonFile(validFile, leadItem, validFile = <<>>)
                  /\ UNCHANGED invalidFile
             ELSE /\ invalidFile' = appendToJsonFile(invalidFile, leadItem, invalidFile = <<>>)
                  /\ UNCHANGED validFile

\* History: how the poll of the run's latest task ended ("null": no results,
\* "data": results returned, "classified": saveResults has gone through them).
LogPoll(how) == [createLog EXCEPT ![Len(createLog)] = [@ EXCEPT !.poll = how]]
\* History: the same, with the number of entries of the results returned.
LogData(how, n) ==
  [createLog EXCEPT ![Len(createLog)] = [@ EXCEPT !.poll = how, !.verdicts = n]]

\* Staying in iteration i of the batch loop: the batch is tried again.
NextBatchStay(i) ==
  /\ batchIndex' = i
  /\ pc' = "create"

\* Leaving iteration i of the batch loop straight for the final summary.
NextBatchAbort(i) ==
  /\ batchIndex' = i + 1
  /\ pc' = "final"

\* Leaving iteration i of the batch loop: the next batch, or the final summary.
NextBatch(i) ==
  /\ batchIndex' = i + 1
  /\ pc' = IF i + 1 < Len(batches) THEN "create" ELSE "final"

\* ------------------------------------------------------------------ service
\* The results of a completed task: per submitted email, in order, a verdict,
\* or nothing at all (an address the service rejected).
RECURSIVE ResultsFor(_)
ResultsFor(emails) ==
  IF emails = <<>> THEN {<<>>}
  ELSE LET rest == ResultsFor(Tail(emails))
       IN rest \cup {<<[email |-> Head(emails), verdict |-> v]>> \o r :
                       v \in ServiceVerdicts, r \in rest}

\* A task id reaches the script only through createBulkTask's response and
\* task-info.json, so the record of a task that the checkpoint no longer names
\* cannot be read again: of such a task only whether it is still processing is
\* kept (orphans).
DropTask(id) == [t \in (DOMAIN tasks) \ {id} |-> tasks[t]]
OrphansAfterDrop(id) ==
  IF id \in DOMAIN tasks /\ tasks[id].status = "processing"
  THEN (IF orphans < 2 THEN orphans + 1 ELSE 2)
  ELSE orphans

\* Tasks of the service still in status processing.
InFlight ==
  orphans + Cardinality({t \in DOMAIN tasks : tasks[t].status = "processing"})

\* The service finishes a task: completed with results, or error, or the task
\* is no longer known (file_not_found).
ServiceStep ==
  /\ \E t \in DOMAIN tasks :
       /\ tasks[t].status = "processing"
       /\ \/ \E res \in ResultsFor(tasks[t].emails) :
               tasks' = [tasks EXCEPT ![t] = [@ EXCEPT !.status = "completed", !.results = res]]
          \/ \E st \in {"error", "file_not_found"} :
               tasks' = [tasks EXCEPT ![t] = [@ EXCEPT !.status = st]]
  /\ UNCHANGED <<leads, files, orphans, pc, runs, locals, history>>

\* The service finishes a task that no checkpoint names.
ServiceStepOrphan ==
  /\ orphans > 0
  /\ orphans' = orphans - 1
  /\ UNCHANGED <<leads, files, tasks, pc, runs, locals, history>>

\* ------------------------------------------------------------------ the run
\* processEmails, lines 348-367: load the checkpoint; with one, probe its task.
StartRun ==
  /\ pc \in {"idle", "done", "aborted", "crashed"}
  /\ runs < MaxRuns
  /\ runs' = runs + 1
  /\ startTaskInfo' = taskInfo
  /\ startValid' = validFile
  /\ startInvalid' = invalidFile
  /\ probeOutcome' = "none"
  /\ recovered' = <<>>
  /\ createLog' = <<>>
  /\ polled' = <<>>
  /\ balanceCalled' = FALSE
  /\ leadMap' = EmptyMap
  /\ batches' = <<>>
  /\ batchIndex' = 0
  /\ elapsed' = 0
  /\ todo' = <<>>
  /\ IF taskInfo # <<>>
     THEN /\ resumeFromBatch' = taskInfo[1].batchIndex
          /\ pollTaskId' = taskInfo[1].taskId
          /\ pc' = "probe"
     ELSE /\ resumeFromBatch' = 0
          /\ pollTaskId' = NoTaskId
          /\ pc' = "balance"
  /\ UNCHANGED <<leads, files, service>>

\* Lines 371-417: one poll of the probe and, when pollTaskResults returns, the
\* branch taken on previousResults.
ProbePoll ==
  /\ pc = "probe"
  /\ \E resp \in PollResponses(pollTaskId) :
       LET r == pollTaskResults(resp, elapsed, ProbePolls)
           previousResults == tasks[pollTaskId]
       IN /\ polled' = Append(polled, resp)
          /\ elapsed' = r.elapsed
          /\ CASE r.ret = "again" ->
                    UNCHANGED <<pc, taskInfo, tasks, orphans, leadMap, todo, probeOutcome,
                                recovered>>
               [] r.ret = "data" /\ previousResults.status = "completed" ->
                    /\ leadMap' = ResumeLeadMap(taskInfo[1].emails, EmptyMap)
                    /\ todo' = previousResults.results
                    /\ pc' = "recover"
                    /\ probeOutcome' = "completed"
                    /\ recovered' = previousResults.results
                    /\ UNCHANGED <<taskInfo, tasks, orphans>>
               [] r.ret = "data" /\ previousResults.status # "completed" ->
                    /\ pc' = "aborted"
                    /\ probeOutcome' = "processing"
                    /\ UNCHANGED <<taskInfo, tasks, orphans, leadMap, todo, recovered>>
               [] OTHER ->
                    /\ taskInfo' = <<>>
                    /\ tasks' = DropTask(pollTaskId)
                    /\ orphans' = OrphansAfterDrop(pollTaskId)
                    /\ pc' = "balance"
                    /\ probeOutcome' = IF resp = "processing" THEN "timeout" ELSE "failed"
                    /\ UNCHANGED <<leadMap, todo, recovered>>
  /\ UNCHANGED <<leads, validFile, invalidFile, runs, resumeFromBatch, batches,
                 batchIndex, pollTaskId, startTaskInfo, startValid, startInvalid,
                 createLog, balanceCalled>>

\* Lines 388-391: saveResults over the recovered results, one file write a step.
RecoverSave ==
  /\ pc = "recover"
  /\ todo # <<>>
  /\ saveResultsEntry(Head(todo))
  /\ todo' = Tail(todo)
  /\ UNCHANGED <<leads, taskInfo, service, pc, runs, resumeFromBatch, leadMap, batches,
                 batchIndex, pollTaskId, elapsed, history>>

\* Lines 398-403 without resumeFromBatch += 1.
RecoverDoneSameBatch ==
  /\ pc = "recover"
  /\ todo = <<>>
  /\ taskInfo' = <<>>
  /\ tasks' = DropTask(pollTaskId)
  /\ orphans' = OrphansAfterDrop(pollTaskId)
  /\ pollTaskId' = NoTaskId
  /\ pc' = "balance"
  /\ UNCHANGED <<leads, validFile, invalidFile, runs, resumeFromBatch, leadMap,
                 batches, batchIndex, elapsed, todo, history>>

\* Lines 398-403: delete the checkpoint and move to the next batch index.
RecoverDone ==
  /\ pc = "recover"
  /\ todo = <<>>
  /\ taskInfo' = <<>>
  /\ tasks' = DropTask(pollTaskId)
  /\ orphans' = OrphansAfterDrop(pollTaskId)
  /\ resumeFromBatch' = resumeFromBatch + 1
  /\ pollTaskId' = NoTaskId
  /\ pc' = "balance"
  /\ UNCHANGED <<leads, validFile, invalidFile, runs, leadMap, batches,
                 batchIndex, elapsed, todo, history>>

\* Lines 421-476: the balance request, the already-verified filter, the lead
\* map, the batches and the entry of the batch loop.
CheckBalanceAndFilter ==
  /\ pc = "balance"
  /\ balanceCalled' = TRUE
  /\ LET unverifiedLeads == UnverifiedLeads
         emailsToVerify == [i \in 1..Len(unverifiedLeads) |-> unverifiedLeads[i].email]
     IN IF unverifiedLeads = <<>>
        THEN /\ pc' = "done"
             /\ UNCHANGED <<leadMap, batches, batchIndex>>
        ELSE /\ leadMap' = BuildLeadMap(unverifiedLeads, EmptyMap)
             /\ batches' = MakeBatches(emailsToVerify)
             /\ batchIndex' = resumeFromBatch
             /\ pc' = IF resumeFromBatch < Len(batches') THEN "create" ELSE "final"
  /\ UNCHANGED <<leads, files, service, runs, resumeFromBatch, pollTaskId, elapsed, todo,
                 startTaskInfo, startValid, startInvalid, probeOutcome, recovered, createLog,
                 polled>>

\* Lines 477-498: createBulkTask for the current batch (the cleaned list is
\* what is posted) and, on success, saveTaskInfo.
CreateTask ==
  /\ pc = "create"
  /\ LET batch == batches[batchIndex + 1]
     IN \E cleanedData \in {cleanEmailList(batch)} :
        \E validEmails \in {cleanedData.validEmails} :
        \E ok \in BOOLEAN :
          /\ ok => validEmails # <<>>
          /\ createLog' = Append(createLog,
                                 [batchIndex |-> batchIndex, emails |-> validEmails,
                                  invalidCount |-> cleanedData.invalidCount,
                                  duplicateCount |-> cleanedData.duplicateCount,
                                  taskId |-> IF ok THEN NewTaskId ELSE NoTaskId,
                                  poll |-> "none", verdicts |-> 0])
          /\ IF ok
             THEN /\ tasks' = [t \in {NewTaskId} |->
                                 [emails |-> validEmails, status |-> "processing",
                                  results |-> <<>>]]
                  /\ orphans' = IF taskInfo = <<>> THEN orphans
                                 ELSE OrphansAfterDrop(taskInfo[1].taskId)
                  /\ taskInfo' = saveTaskInfo(NewTaskId, batch, batchIndex, Len(batches))
                  /\ pollTaskId' = NewTaskId
                  /\ elapsed' = 0
                  /\ polled' = <<>>
                  /\ pc' = "poll"
                  /\ UNCHANGED batchIndex
             ELSE /\ NextBatch(batchIndex)
                  /\ UNCHANGED <<service, taskInfo, pollTaskId, elapsed, polled>>
  /\ UNCHANGED <<leads, validFile, invalidFile, runs, resumeFromBatch, leadMap, batches,
                 todo, startTaskInfo, startValid, startInvalid, probeOutcome, recovered,
                 balanceCalled>>

\* Lines 502-507: one poll of the batch's task; null skips the batch, the data
\* go to saveResults.
MainPoll ==
  /\ pc = "poll"
  /\ \E resp \in PollResponses(pollTaskId) :
       LET r == pollTaskResults(resp, elapsed, MainPolls)
           results == tasks[pollTaskId]
       IN /\ polled' = Append(polled, resp)
          /\ elapsed' = r.elapsed
          /\ CASE r.ret = "again" -> UNCHANGED <<pc, batchIndex, todo, createLog>>
               [] r.ret = "data" /\ results.results # <<>> ->
                    /\ todo' = results.results
                    /\ pc' = "save"
                    /\ createLog' = LogData("data", Len(results.results))
                    /\ UNCHANGED batchIndex
               [] r.ret = "data" /\ results.results = <<>> ->
                    /\ NextBatch(batchIndex)
                    /\ createLog' = LogData("classified", 0)
                    /\ UNCHANGED todo
               [] OTHER ->
                    /\ NextBatch(batchIndex)
                    /\ createLog' = LogPoll("null")
                    /\ UNCHANGED todo
  /\ UNCHANGED <<leads, files, service, runs, resumeFromBatch, leadMap, batches,
                 pollTaskId, startTaskInfo, startValid, startInvalid, probeOutcome,
                 recovered, balanceCalled>>

\* Line 511: saveResults over the batch's results, one file write a step; after
\* the last entry the loop goes on.
SaveResults ==
  /\ pc = "save"
  /\ saveResultsEntry(Head(todo))
  /\ todo' = Tail(todo)
  /\ IF Tail(todo) = <<>>
     THEN /\ NextBatch(batchIndex)
          /\ createLog' = LogPoll("classified")
     ELSE UNCHANGED <<pc, batchIndex, createLog>>
  /\ UNCHANGED <<leads, taskInfo, service, runs, resumeFromBatch, leadMap, batches,
                 pollTaskId, elapsed, startTaskInfo, startValid, startInvalid,
                 probeOutcome, recovered, polled, balanceCalled>>

\* Lines 535-538: the final clean-up of task-info.json.
FinalCleanup ==
  /\ pc = "final"
  /\ taskInfo' = <<>>
  /\ tasks' = EmptyMap
  /\ orphans' = IF taskInfo = <<>> THEN orphans ELSE OrphansAfterDrop(taskInfo[1].taskId)
  /\ pc' = "done"
  /\ UNCHANGED <<leads, validFile, invalidFile, runs, locals, history>>

\* The process dies between two steps: the files stay, the memory (and with it
\* the record of what the run had done) is lost.
Crash ==
  /\ pc \in InRun
  /\ pc' = "crashed"
  /\ resumeFromBatch' = 0
  /\ leadMap' = EmptyMap
  /\ batches' = <<>>
  /\ batchIndex' = 0
  /\ pollTaskId' = NoTaskId
  /\ elapsed' = 0
  /\ todo' = <<>>
  /\ startTaskInfo' = <<>>
  /\ startValid' = <<>>
  /\ startInvalid' = <<>>
  /\ probeOutcome' = "none"
  /\ recovered' = <<>>
  /\ createLog' = <<>>
  /\ polled' = <<>>
  /\ balanceCalled' = FALSE
  /\ UNCHANGED <<leads, files, service, runs>>

Next ==
  \/ StartRun
  \/ ProbePoll
  \/ RecoverSave
  \/ RecoverDone
  \/ CheckBalanceAndFilter
  \/ CreateTask
  \/ MainPoll
  \/ SaveResults
  \/ FinalCleanup
  \/ Crash
  \/ ServiceStep
  \/ ServiceStepOrphan

Spec == Init /\ [][Next]_vars

\* ------------------------------------------------------------------ claims
\* Lowercased emails of a list of email strings, and of a store.
LowerSet(emails) == {toLowerCase(emails[i]) : i \in 1..Len(emails)}
StoreKeys(file) == {toLowerCase(file[i].email) : i \in 1..Len(file)}
\* A run is under way or has ended by itself (it has not been killed).
RunAlive == pc \notin {"idle", "crashed"}
\* The run started on a checkpoint.
Resumed == RunAlive /\ startTaskInfo # <<>>

\* C1 (resume safety): a run that starts with a checkpoint whose probe sees
\* "processing" until the probe timeout aborts: no createTask request, and the
\* checkpoint stays as it was.
C1_ResumeSafety ==
  (Resumed /\ probeOutcome = "timeout") =>
    (pc = "aborted" /\ createLog = <<>> /\ taskInfo = startTaskInfo)

\* The first input lead with the lowercased email of e.
FirstLeadFor(e) ==
  leads[CHOOSE i \in 1..Len(leads) :
          /\ toLowerCase(leads[i].email) = toLowerCase(e)
          /\ \A j \in 1..(i - 1) : toLowerCase(leads[j].email) # toLowerCase(e)]

\* The leads of the results' entries routed to the valid (or invalid) store.
RoutedLeads(results, toValid) ==
  LET hit == SelectSeq(results, LAMBDA en : isEmailValid(en.verdict) = toValid)
  IN [i \in 1..Len(hit) |-> FirstLeadFor(hit[i].email)]

\* The facts of C2 that hold as claimed: the recovered results are appended to
\* the stores, the checkpoint is deleted, and the run's first createTask is for
\* batch index k + 1.
C2_Recovery ==
  LET ck == startTaskInfo[1]
  IN /\ (pc = "recover" /\ todo = <<>>) =>
          /\ validFile = startValid \o RoutedLeads(recovered, TRUE)
          /\ invalidFile = startInvalid \o RoutedLeads(recovered, FALSE)
     /\ (pc # "recover") => (taskInfo = <<>> \/ taskInfo[1].taskId # ck.taskId)
     /\ (createLog # <<>>) => createLog[1].batchIndex = ck.batchIndex + 1

\* The emails posted by the run's createTask requests, lowercased.
PostedKeys == UNION {LowerSet(createLog[i].emails) : i \in 1..Len(createLog)}
ResultKeys(results) == {toLowerCase(results[i].email) : i \in 1..Len(results)}

C3_Partition ==
  LET all == validFile \o invalidFile
  IN \A i, j \in 1..Len(all) :
       (toLowerCase(all[i].email) = toLowerCase(all[j].email)) => (i = j)

\* The run started with every input lead already in one of the stores.
AllVerifiedAtStart ==
  /\ runs >= 1
  /\ \A i \in 1..Len(leads) :
       toLowerCase(leads[i].email) \in StoreKeys(startValid) \cup StoreKeys(startInvalid)

\* C4 (idempotence): a run without checkpoint whose leads are all in the stores
\* ends having issued no request at all to the service (no createTask, no poll,
\* no balance check) and with both stores as they were.
C4_Idempotence ==
  (pc = "done" /\ startTaskInfo = <<>> /\ AllVerifiedAtStart) =>
    /\ createLog = <<>>
    /\ polled = <<>>
    /\ ~balanceCalled
    /\ validFile = startValid
    /\ invalidFile = startInvalid

\* C4 as amended: such a run goes from the balance check straight to its end,
\* issues no createTask and no poll request, leaves both stores as they were,
\* and has made the one balance request when it ends.
C4_IdempotenceAmended ==
  (RunAlive /\ startTaskInfo = <<>> /\ AllVerifiedAtStart) =>
    /\ pc \in {"balance", "done"}
    /\ createLog = <<>>
    /\ polled = <<>>
    /\ (pc = "done") => balanceCalled
    /\ validFile = startValid
    /\ invalidFile = startInvalid

\* C4 witness: a second run over fully classified input has ended.
C4_Witness ==
  /\ pc = "done"
  /\ startTaskInfo = <<>>
  /\ AllVerifiedAtStart
  /\ runs = 2

\* C5 (at most one in-flight task): at most one task of the service is in
\* status processing.
C5_AtMostOneInFlight == InFlight <= 1

\* The index of the first iteration of the run's batch loop.
FirstLoopIndex == IF createLog = <<>> THEN batchIndex ELSE createLog[1].batchIndex

\* C6 (stale-checkpoint recovery): when the probe of a checkpoint fails, the
\* checkpoint is deleted and the batch loop starts at index 0 of the fresh
\* partition.
C6_StaleRecovery ==
  (Resumed /\ probeOutcome = "failed") =>
    /\ taskInfo = <<>> \/ taskInfo[1].taskId # startTaskInfo[1].taskId
    /\ (batches # <<>>) => FirstLoopIndex = 0

\* The run's createTask requests that succeeded.
Submitted == {i \in 1..Len(createLog) : createLog[i].taskId # NoTaskId}

\* C7 (checkpoint survives a failed poll): when the poll of the run's latest
\* submitted task returned no results, the checkpoint of that task is in place,
\* up to and including the end of the run.
C7_CheckpointSurvives ==
  (RunAlive /\ Submitted # {}) =>
    LET last == createLog[CHOOSE i \in Submitted : \A j \in Submitted : j <= i]
    IN (last.poll = "null") => (taskInfo # <<>> /\ taskInfo[1].taskId = last.taskId)

\* C8 (deletion tied to classification): no checkpoint names a task of the run
\* whose results have all been through saveResults and appended to the stores
\* (a kill in such a state would leave that checkpoint to the next run).
C8_DeletedOnClassify ==
  \A i \in 1..Len(createLog) :
    (/\ createLog[i].poll = "classified"
     /\ Len(validFile) + Len(invalidFile) > Len(startValid) + Len(startInvalid)) =>
      ~(taskInfo # <<>> /\ taskInfo[1].taskId = createLog[i].taskId)

IsPrefix(s, t) == Len(s) <= Len(t) /\ s = SubSeq(t, 1, Len(s))

VerdictLead == Lead(EmailA, "n1")

InitVerdict ==
  \E v \in Verdicts :
    /\ leads = <<VerdictLead>>
    /\ validFile = <<>>
    /\ invalidFile = <<>>
    /\ taskInfo = <<[taskId |-> <<1, 0>>, batchIndex |-> 0, totalBatches |-> 1,
                     emails |-> <<EmailA>>]>>
    /\ tasks = [t \in {<<1, 0>>} |-> [emails |-> <<EmailA>>, status |-> "completed",
                               results |-> <<[email |-> EmailA, verdict |-> v]>>]]
    /\ orphans = 0
    /\ pc = "save"
    /\ runs = 1
    /\ resumeFromBatch = 0
    /\ leadMap = BuildLeadMap(<<VerdictLead>>, EmptyMap)
    /\ batches = <<<<EmailA>>>>
    /\ batchIndex = 0
    /\ pollTaskId = <<1, 0>>
    /\ elapsed = 0
    /\ todo = <<[email |-> EmailA, verdict |-> v]>>
    /\ startTaskInfo = <<>>
    /\ startValid = <<>>
    /\ startInvalid = <<>>
    /\ probeOutcome = "none"
    /\ recovered = <<>>
    /\ createLog = <<[batchIndex |-> 0, emails |-> <<EmailA>>, invalidCount |-> 0,
                      duplicateCount |-> 0, taskId |-> <<1, 0>>, poll |-> "data",
                      verdicts |-> 1]>>
    /\ polled = <<"completed">>
    /\ balanceCalled = TRUE

SpecVerdict == InitVerdict /\ [][SaveResults]_vars

\* C10 (validity rule): a verdict is classified valid exactly when none of
\* is_valid_syntax, is_deliverable, is_safe_to_send is false and none of
\* is_disposable, is_spamtrap, is_disabled is true; the all-absent verdict is
\* valid, and a verdict with is_valid_syntax false is invalid.
C10_ValidityRule ==
  (pc = "final") =>
    LET v == tasks[<<1, 0>>].results[1].verdict
        passes == /\ \A f \in {"is_valid_syntax", "is_deliverable", "is_safe_to_send"} :
                       v[f] \in {"true", "absent"}
                  /\ \A f \in {"is_disposable", "is_spamtrap", "is_disabled"} :
                       v[f] \in {"false", "absent"}
    IN /\ passes => (validFile = <<VerdictLead>> /\ invalidFile = <<>>)
       /\ ~passes => (invalidFile = <<VerdictLead>> /\ validFile = <<>>)
       /\ (v = VerdictEmpty) => validFile # <<>>
       /\ (v["is_valid_syntax"] = "false") => invalidFile # <<>>

\* C10 witness: the all-absent verdict has been classified, as valid.
C10_Witness ==
  /\ pc = "final"
  /\ tasks[<<1, 0>>].results[1].verdict = VerdictEmpty
  /\ validFile = <<VerdictLead>>

\* ------------------------------------------------------------------ cleanEmailList
\* createBulkTask on every email list of up to MaxList strings: the batch loop
\* at its one batch, before the request.
CleanPool == {EmailA, EmailAUpper, EmailD, EmailBad, EmailASpace, EmailTwoAt}
CleanInputs == UNION {[1..n -> CleanPool] : n \in 1..MaxList}

InitClean ==
  \E emailList \in CleanInputs :
    /\ leads = [i \in 1..Len(emailList) |-> Lead(emailList[i], "n1")]
    /\ validFile = <<>>
    /\ invalidFile = <<>>
    /\ taskInfo = <<>>
    /\ tasks = EmptyMap
    /\ orphans = 0
    /\ pc = "create"
    /\ runs = 1
    /\ resumeFromBatch = 0
    /\ leadMap = BuildLeadMap(leads, EmptyMap)
    /\ batches = <<emailList>>
    /\ batchIndex = 0
    /\ pollTaskId = NoTaskId
    /\ elapsed = 0
    /\ todo = <<>>
    /\ startTaskInfo = <<>>
    /\ startValid = <<>>
    /\ startInvalid = <<>>
    /\ probeOutcome = "none"
    /\ recovered = <<>>
    /\ createLog = <<>>
    /\ polled = <<>>
    /\ balanceCalled = TRUE

SpecClean == InitClean /\ [][CreateTask]_vars

\* The normalized key of an email string, and the syntax check on it.
NormKey(e) == trim(toLowerCase(e))
SyntaxOk(e) == isValidEmailFormat(NormKey(e))
\* The positions of a list that hold the first syntactically valid occurrence
\* of their key.
FirstOccurrences(in) ==
  {i \in 1..Len(in) :
     /\ SyntaxOk(in[i])
     /\ \A j \in 1..(i - 1) : SyntaxOk(in[j]) => NormKey(in[j]) # NormKey(in[i])}
\* The subsequence of a list at a set of positions.
SubseqAt(in, S) ==
  [k \in 1..Cardinality(S) |->
     in[CHOOSE i \in S : Cardinality({j \in S : j <= i}) = k]]

\* C11 (local filter): the list createBulkTask posts is the subsequence of its
\* input (original strings, original order) at the first occurrence of each
\* trimmed, lowercased key among the syntactically valid entries; invalidCount
\* counts the entries failing the syntax check, duplicateCount the valid
\* entries dropped as later duplicates, and the three add up to the input's
\* length.
C11_LocalFilter ==
  \A k \in 1..Len(createLog) :
    LET in == batches[createLog[k].batchIndex + 1]
        out == createLog[k]
        kept == FirstOccurrences(in)
    IN /\ out.emails = SubseqAt(in, kept)
       /\ out.invalidCount = Cardinality({i \in 1..Len(in) : ~SyntaxOk(in[i])})
       /\ out.duplicateCount =
            Cardinality({i \in 1..Len(in) : SyntaxOk(in[i]) /\ i \notin kept})
       /\ Len(out.emails) + out.invalidCount + out.duplicateCount = Len(in)

\* C11 witness: the list a@b.c, A@b.c, d@b, d@b.c has been through the filter:
\* two entries posted, one dropped as a duplicate, one rejected.
C11_Witness ==
  /\ batches = <<<<EmailA, EmailAUpper, EmailBad, EmailD>>>>
  /\ createLog # <<>>
  /\ createLog[1].emails = <<EmailA, EmailD>>
  /\ createLog[1].duplicateCount = 1
  /\ createLog[1].invalidCount = 1

\* ------------------------------------------------------------------ batching
RECURSIVE Concat(_)
Concat(bs) == IF bs = <<>> THEN <<>> ELSE Head(bs) \o Concat(Tail(bs))

\* The emails of the leads that are in neither store, in input order.
PendingEmails ==
  LET known == StoreKeys(validFile) \cup StoreKeys(invalidFile)
      pending == SelectSeq(leads, LAMBDA l : toLowerCase(l.email) \notin known)
  IN [i \in 1..Len(pending) |-> pending[i].email]

CreateFailedStep ==
  /\ Len(createLog') = Len(createLog) + 1
  /\ createLog'[Len(createLog')].taskId = NoTaskId

\* C13 (createTask failure is local): a failed createTask request for batch i
\* leaves the checkpoint, both stores and the service's tasks as they were and
\* issues no poll; the run goes on to batch i + 1, or to its final summary when
\* i was the last batch; and the run never polls for, nor posts again, a batch
\* whose request failed.
C13_CreateFailureLocal ==
  [][/\ CreateFailedStep =>
          /\ UNCHANGED <<taskInfo, validFile, invalidFile, tasks, orphans, polled>>
          /\ batchIndex' = batchIndex + 1
          /\ pc' = IF batchIndex + 1 < Len(batches) THEN "create" ELSE "final"
     /\ \A i \in 1..Len(createLog') :
          (createLog'[i].taskId = NoTaskId) =>
            /\ createLog'[i].poll = "none"
            /\ \A j \in 1..Len(createLog') :
                 (createLog'[j].batchIndex = createLog'[i].batchIndex) => (j = i)
    ]_vars

\* C13 witness: after a failed request for one batch the run has posted the
\* next batch and is polling its task.
C13_Witness ==
  /\ Len(createLog) = 2
  /\ createLog[1].taskId = NoTaskId
  /\ createLog[2].batchIndex = createLog[1].batchIndex + 1
  /\ createLog[2].taskId # NoTaskId
  /\ pc = "poll"

\* ------------------------------------------------------------------ termination
\* A step of the script: every request of the run gets its response and the
\* event loop goes on, so a run that is not killed always takes its next step.
RunStep ==
  \/ ProbePoll
  \/ RecoverSave
  \/ RecoverDone
  \/ CheckBalanceAndFilter
  \/ CreateTask
  \/ MainPoll
  \/ SaveResults
  \/ FinalCleanup

\* The state before the last invocation of a behaviour, the earlier ones
\* having been killed: before any request (no file written), or while polling
\* the task of the first batch (task-info.json names that task; the stores
\* are empty).
InitLive ==
  /\ leads \in InputLists
  /\ validFile = <<>>
  /\ invalidFile = <<>>
  /\ LET all == MakeBatches([i \in 1..Len(leads) |-> leads[i].email])
         posted == cleanEmailList(all[1]).validEmails
     IN \/ /\ taskInfo = <<>>
           /\ tasks = EmptyMap
        \/ /\ posted # <<>>
           /\ taskInfo = <<[taskId |-> <<MaxRuns - 1, 0>>, batchIndex |-> 0,
                            totalBatches |-> Len(all), emails |-> all[1]]>>
           /\ tasks = [t \in {<<MaxRuns - 1, 0>>} |->
                         [emails |-> posted, status |-> "processing", results |-> <<>>]]
  /\ orphans = 0
  /\ pc = "crashed"
  /\ runs = MaxRuns - 1
  /\ resumeFromBatch = 0
  /\ leadMap = EmptyMap
  /\ batches = <<>>
  /\ batchIndex = 0
  /\ pollTaskId = NoTaskId
  /\ elapsed = 0
  /\ todo = <<>>
  /\ startTaskInfo = <<>>
  /\ startValid = <<>>
  /\ startInvalid = <<>>
  /\ probeOutcome = "none"
  /\ recovered = <<>>
  /\ createLog = <<>>
  /\ polled = <<>>
  /\ balanceCalled = FALSE

\* The invocation that follows and the service, without kills.
NextLive ==
  \/ StartRun
  \/ RunStep
  \/ ServiceStep
  \/ ServiceStepOrphan

SpecLive == InitLive /\ [][NextLive]_vars /\ WF_vars(RunStep)

\* The step ends iteration i of the batch loop on a failure: the request
\* failed, or the poll returned nothing.
BatchFailedStep ==
  \/ CreateFailedStep
  \/ /\ createLog # <<>> /\ Len(createLog') = Len(createLog)
     /\ createLog[Len(createLog)].poll = "none"
     /\ createLog'[Len(createLog)].poll = "null"

\* C14 (run completion): a run that is not killed ends, at DONE or ABORTED,
\* whatever the failures and timeouts of its requests and polls; and a failed
\* batch is followed by the next batch (the final summary after the last one).
C14_RunCompletes ==
  /\ (pc \in InRun) ~> (pc \in {"done", "aborted", "crashed"})
  /\ [][BatchFailedStep =>
          /\ batchIndex' = batchIndex + 1
          /\ pc' = IF batchIndex + 1 < Len(batches) THEN "create" ELSE "final"]_vars

\* C14 witness: a run has ended after the request for its first batch failed
\* and the poll of its second batch timed out.
C14_Witness ==
  /\ pc = "done"
  /\ Len(createLog) >= 2
  /\ createLog[1].taskId = NoTaskId
  /\ createLog[2].poll = "null"
  /\ elapsed = MainPolls

\* ------------------------------------------------------------------ durability
\* C15 (durability point): whenever the run polls a task in the batch loop,
\* task-info.json exists and holds that task's id (the one createBulkTask
\* returned for the batch), the batch's index and the batch's email list.
C15_DurabilityPoint ==
  (pc = "poll") =>
    /\ taskInfo # <<>>
    /\ taskInfo[1].taskId = pollTaskId
    /\ taskInfo[1].taskId = createLog[Len(createLog)].taskId
    /\ taskInfo[1].batchIndex = batchIndex
    /\ createLog[Len(createLog)].batchIndex = batchIndex
    /\ taskInfo[1].emails = batches[batchIndex + 1]

\* C15 witness: the run is polling the task of its second batch for the second
\* time.
C15_Witness ==
  /\ pc = "poll"
  /\ batchIndex = 1
  /\ elapsed = 1
  /\ Len(createLog) = 2

\* ------------------------------------------------------------------ the poll loop
\* The step is one get-result request of pollTaskResults and its outcome.
PollStep == Len(polled') = Len(polled) + 1
\* pollTaskResults hands the response's data to its caller / returns null /
\* sleeps and goes round again.
ReturnsData ==
  \/ pc = "probe" /\ pc' \in {"recover", "aborted"}
  \/ pc = "poll" /\ createLog'[Len(createLog')].poll \in {"data", "classified"}
ReturnsNull ==
  \/ pc = "probe" /\ pc' = "balance"
  \/ pc = "poll" /\ createLog'[Len(createLog')].poll = "null"
GoesRound == pc' = pc /\ elapsed' = elapsed + 1
MaxWait == IF pc = "probe" THEN ProbePolls ELSE MainPolls

\* C16 (poll loop outcome): pollTaskResults returns the task's result exactly
\* on a response with status completed, and nothing but a completed response;
\* it returns failure at once on status error or file_not_found and on a
\* request that throws; on another status it goes round again while the wait
\* is below maxWaitTime and returns failure once it is reached; so the
\* responses before the last were all of another status, and there are never
\* more requests than maxWaitTime allows.
C16_PollOutcome ==
  [][PollStep =>
       LET resp == polled'[Len(polled')]
       IN /\ ReturnsData <=> (resp = "completed")
          /\ ReturnsData =>
               /\ tasks[pollTaskId].status = "completed"
               /\ pc' # "aborted"
               /\ (pc = "probe") => recovered' = tasks[pollTaskId].results
               /\ (pc = "poll" /\ pc' = "save") => todo' = tasks[pollTaskId].results
          /\ (resp \in {"error", "file_not_found", "throw"}) => ReturnsNull
          /\ (resp = "processing") =>
               IF elapsed + 1 < MaxWait THEN GoesRound
               ELSE ReturnsNull /\ elapsed' = MaxWait
          /\ resp \in {"completed", "error", "file_not_found", "throw", "processing"}
          /\ \A i \in 1..Len(polled) : polled[i] = "processing"
          /\ Len(polled') <= MaxWait
    ]_vars

\* C16 witness: a poll in the batch loop has timed out, every response having
\* been "processing".
C16_Witness ==
  /\ createLog # <<>>
  /\ createLog[Len(createLog)].poll = "null"
  /\ Len(polled) = MainPolls
  /\ \A i \in 1..Len(polled) : polled[i] = "processing"

\* ------------------------------------------------------------------ saveResults
\* saveResults on the results the service reports for the first batch's task,
\* whatever addresses it reports them under: one or two entries, each under
\* an address of the pool (results is an object: no address twice).
RouteResults ==
  LET entries == [email : {EmailA, EmailAUpper, EmailD, EmailBad}, verdict : ServiceVerdicts]
  IN {<<e>> : e \in entries}
       \cup {r \in entries \X entries : r[1].email # r[2].email}

InitRoute ==
  \E res \in RouteResults :
    /\ leads \in InputLists
    /\ validFile = <<>>
    /\ invalidFile = <<>>
    /\ LET all == MakeBatches([i \in 1..Len(leads) |-> leads[i].email])
           cleanedData == cleanEmailList(all[1])
       IN /\ cleanedData.validEmails # <<>>
          /\ batches = all
          /\ taskInfo = saveTaskInfo(<<1, 0>>, all[1], 0, Len(all))
          /\ tasks = [t \in {<<1, 0>>} |->
                        [emails |-> cleanedData.validEmails, status |-> "completed",
                         results |-> res]]
          /\ createLog = <<[batchIndex |-> 0, emails |-> cleanedData.validEmails,
                            invalidCount |-> cleanedData.invalidCount,
                            duplicateCount |-> cleanedData.duplicateCount,
                            taskId |-> <<1, 0>>, poll |-> "data",
                            verdicts |-> Len(res)]>>
    /\ orphans = 0
    /\ pc = "save"
    /\ runs = 1
    /\ resumeFromBatch = 0
    /\ leadMap = BuildLeadMap(leads, EmptyMap)
    /\ batchIndex = 0
    /\ pollTaskId = <<1, 0>>
    /\ elapsed = 0
    /\ todo = res
    /\ startTaskInfo = <<>>
    /\ startValid = <<>>
    /\ startInvalid = <<>>
    /\ probeOutcome = "none"
    /\ recovered = <<>>
    /\ polled = <<"completed">>
    /\ balanceCalled = TRUE

SpecRoute == InitRoute /\ [][SaveResults]_vars

\* The leads of the input.
InputLeads == {leads[i] : i \in 1..Len(leads)}

\* C17 (classifier routing and passthrough): for each (email, verdict) entry
\* saveResults visits, when the lowercased email is in the lead map exactly one
\* entry is appended, the input lead the map holds for it, to the valid store
\* if the verdict is valid and to the invalid store otherwise; when it is not
\* in the map nothing is appended; and every entry of either store is an input
\* lead.
C17_Routing ==
  [][/\ (pc \in {"save", "recover"} /\ todo # <<>> /\ todo' = Tail(todo)
          /\ pc' # "crashed") =>
          LET entry == Head(todo)
              key == toLowerCase(entry.email)
          IN IF key \in DOMAIN leadMap
             THEN /\ leadMap[key] \in InputLeads
                  /\ toLowerCase(leadMap[key].email) = key
                  /\ IF isEmailValid(entry.verdict)
                     THEN /\ validFile' = validFile \o <<leadMap[key]>>
                          /\ invalidFile' = invalidFile
                     ELSE /\ invalidFile' = invalidFile \o <<leadMap[key]>>
                          /\ validFile' = validFile
             ELSE validFile' = validFile /\ invalidFile' = invalidFile
     /\ \A i \in 1..Len(validFile') : validFile'[i] \in InputLeads
     /\ \A i \in 1..Len(invalidFile') : invalidFile'[i] \in InputLeads
    ]_vars

\* C17 witness: of two reported entries, the one under an address of no lead
\* was skipped and the other's lead, spelled otherwise than the report, was
\* appended to the invalid store.
C17_Witness ==
  /\ pc # "save"
  /\ Len(tasks[<<1, 0>>].results) = 2
  /\ toLowerCase(tasks[<<1, 0>>].results[1].email) \notin DOMAIN leadMap
  /\ validFile = <<>>
  /\ Len(invalidFile) = 1
  /\ invalidFile[1].email # tasks[<<1, 0>>].results[2].email

\* ------------------------------------------------------------------ resubmission, coverage
\* The normalized emails of a list of email strings, and of a store.
NormSet(emails) == {NormKey(emails[i]) : i \in 1..Len(emails)}
NormStoreKeys(file) == {NormKey(file[i].email) : i \in 1..Len(file)}

\* C18 (no resubmission of classified emails): at every createBulkTask request
\* no posted email has its normalized email in either store.
C18_NoResubmission ==
  [][(Len(createLog') = Len(createLog) + 1) =>
       NormSet(createLog'[Len(createLog')].emails)
         \cap (NormStoreKeys(validFile) \cup NormStoreKeys(invalidFile)) = {}]_vars

\* Every request of the run succeeded and every posted email got a verdict:
\* the recovered task's (when the run started on a completed checkpoint) and
\* those of the batch loop.
AllSucceeded ==
  /\ probeOutcome \in {"none", "completed"}
  /\ (probeOutcome = "completed") =>
        Len(recovered) = Len(cleanEmailList(startTaskInfo[1].emails).validEmails)
  /\ \A i \in 1..Len(createLog) :
        /\ createLog[i].taskId # NoTaskId
        /\ createLog[i].poll = "classified"
        /\ createLog[i].verdicts = Len(createLog[i].emails)

====
